---- MODULE Spec2Model ----
(***************************************************************************)
(* A model of the entity/relationship resolution and graph-persistence    *)
(* pipeline of rag-engine:                                                 *)
(*   - BatchWriter            services/lightrag/app/utils/neo4j_batch.py   *)
(*   - EntityDeduplicator     services/lightrag/app/services/              *)
(*                            entity_deduplication.py, db/                 *)
(*                            neo4j_entity_store.py                        *)
(*   - process_documents      services/api/app/workers/lightrag_worker.py  *)
(*   - _parse_llm_response    services/lightrag/app/services/              *)
(*                            entity_extractor.py, relationship_extractor  *)
(* Each component has its own specification (SpecBatch, SpecDedup,         *)
(* SpecWorker, SpecParse) over the module's variables; the variables of    *)
(* the other components keep their initial values.                         *)
(***************************************************************************)
EXTENDS Integers, Sequences, FiniteSets, TLC

VARIABLES
    \* BatchWriter and the graph store it writes to
    entity_buffer,        \* BatchWriter.entity_buffer
    relationship_buffer,  \* BatchWriter.relationship_buffer
    nodes,                \* (:Entity) nodes created through the writer's session
    edges,                \* [:RELATIONSHIP] edges created through the session
    added,                \* number of add_entity / add_relationship calls so far
    blast,                \* record of the last BatchWriter call (history)
    \* EntityDeduplicator and Neo4jEntityStore
    entities,             \* stored (:Entity) nodes: records id, name, type, confidence_score
    next_id,              \* stands for uuid4(): the next fresh entity id
    calls,                \* number of find_or_create_entity calls so far
    dlast,                \* record of the last find_or_create_entity call (history)
    dprev,                \* record of the call before it (history)
    \* process_documents and LightRAGQueue
    queue,                \* LightRAGQueue.queue: the items not yet dequeued
    unfinished,           \* asyncio.Queue._unfinished_tasks
    processing,           \* LightRAGQueue.processing: doc_id -> status
    db_status,            \* Document.status in the graph store
    pc,                   \* where the worker coroutine is suspended
    item,                 \* the worker's local variable `item`
    trail,                \* statuses the worker set for `item` in this attempt (history)
    faulted,              \* some awaited call raised, or the task was cancelled (history)
    handled,              \* per document: text, times dequeued, extractor calls, failure,
                          \* rank among the enqueues and among the dequeues (history)
    \* _parse_llm_response
    llm_response,         \* the model's response text, as a sequence of tokens
    parsed,               \* outcome of the last extract call on llm_response
    \* entity_config
    entity_types_cache,   \* the module global _entity_types_cache
    loads,                \* number of entity_config calls so far
    clast,                \* record of the last entity_config call (history)
    \* concurrent find_or_create_entity calls
    tasks                 \* per task: where its call is suspended, and its locals

batchVars  == <<entity_buffer, relationship_buffer, nodes, edges, added, blast>>
dedupVars  == <<entities, next_id, calls, dlast, dprev>>
workerVars == <<queue, unfinished, processing, db_status, pc, item, trail, faulted, handled>>
parseVars  == <<llm_response, parsed>>
cacheVars  == <<entity_types_cache, loads, clast>>
taskVars   == <<tasks>>
vars == <<batchVars, dedupVars, workerVars, parseVars, cacheVars, taskVars>>

Min(a, b) == IF a < b THEN a ELSE b

(***************************************************************************)
(*                              BatchWriter                                *)
(***************************************************************************)

\* BatchWriter.batch_size, a constructor argument.
BatchSize == 3
\* How many items the callers add in one run of the model.
MaxAdds == 3
Names == {"a", "b"}

\* An entity dictionary (keys id, name, type, ...) and a relationship
\* dictionary (keys id, source_name, target_name, rel_type, ...).  `malformed`
\* marks an item the store rejects in whatever batch it is written.
EntityItem(i, n, m) ==
    [kind |-> "entity", id |-> i, name |-> n, source_name |-> "", target_name |-> "",
     malformed |-> m]
RelationshipItem(i, s, t, m) ==
    [kind |-> "rel", id |-> i, name |-> "", source_name |-> s, target_name |-> t,
     malformed |-> m]

\* The latest write attempt of a call that the store may fail transiently.
MaxFailAt == 1

\* The store's behaviour during one call: `down` rejects every write,
\* `failAt` is the write attempt (counted from 1) that fails transiently, 0 for
\* none.
Reliable == [down |-> FALSE, failAt |-> 0]
Envs ==
    {[down |-> FALSE, failAt |-> f] : f \in 0..MaxFailAt} \cup {[down |-> TRUE, failAt |-> 0]}

\* session.run(query, batch=batch) raises.
WriteFails(batch, att, env) ==
    \/ env.down
    \/ att = env.failAt
    \/ \E i \in 1..Len(batch) : batch[i].malformed

\* The effect of a bulk query that succeeds.  The query is chosen from the
\* first item of the batch ("name" in batch[0] and "type" in batch[0]).
\* Entity query: one node per item.  Relationship query: for every item one
\* edge per pair of nodes matching source_name and target_name.
EdgesFor(rel, ns) ==
    {[id |-> rel.id, src |-> s.id, dst |-> t.id] :
        s \in {x \in ns : x.name = rel.source_name},
        t \in {x \in ns : x.name = rel.target_name}}

RunQuery(batch, st) ==
    IF batch[1].kind = "entity"
    THEN [st EXCEPT !.nodes = @ \cup {batch[i] : i \in 1..Len(batch)}]
    ELSE [st EXCEPT !.edges =
            @ \cup UNION {EdgesFor(batch[i], st.nodes) : i \in 1..Len(batch)}]

\* One write attempt: counts it, and applies the query unless the store fails.
\* st.ok records whether the last attempt succeeded.
Attempt(batch, st, env) ==
    LET st1 == [st EXCEPT !.att = @ + 1]
    IN  IF WriteFails(batch, st1.att, env)
        THEN [st1 EXCEPT !.ok = FALSE]
        ELSE [RunQuery(batch, st1) EXCEPT !.ok = TRUE]

\* _create_single_entity / _create_single_relationship inside the try/except
\* of the one-by-one loop: a failure is logged and the item is dropped.
RECURSIVE SingleItems(_, _, _, _)
SingleItems(items, i, st, env) ==
    IF i > Len(items) THEN st
    ELSE LET st1 == Attempt(<<items[i]>>, st, env)
         IN  SingleItems(items, i + 1,
                 IF st1.ok THEN st1
                 ELSE [st1 EXCEPT !.dropped = @ \cup {items[i].id}], env)

\* batch_size = len(items) // 2
MutCeilHalf(n) == (n + 1) \div 2
RetryBatchSize(n) == n \div 2

\* The deepest nesting of _retry_with_smaller_batches the model follows.  A
\* buffer never holds more than BatchSize items, so calls nested deeper than
\* this were not all made on strictly smaller batches; the model stops there
\* and records the call as not terminating.
RecursionCap == BatchSize + 1

\* The end of range(0, len(items), batch_size): the chunks cover every item,
\* also the odd one left after two halves.
MutTwoHalves(n, batch_size) == 2 * batch_size
ChunkLimit(n, batch_size) == n

\* BatchWriter._retry_with_smaller_batches
RECURSIVE RetryWithSmallerBatches(_, _, _)
RECURSIVE RetryChunks(_, _, _, _, _)
RetryWithSmallerBatches(items, st, env) ==
    LET batch_size == RetryBatchSize(Len(items))
        inner == [st EXCEPT !.depth = @ + 1]
    IN  IF st.diverged \/ st.depth >= RecursionCap
        THEN [st EXCEPT !.diverged = TRUE]
        ELSE [(IF batch_size = 0
               THEN SingleItems(items, 1, inner, env)
               ELSE RetryChunks(items, batch_size, 0, inner, env))
                 EXCEPT !.depth = st.depth]

\* for i in range(0, len(items), batch_size): batch = items[i : i + batch_size]
RetryChunks(items, batch_size, i, st, env) ==
    IF i >= ChunkLimit(Len(items), batch_size) THEN st
    ELSE LET batch == SubSeq(items, i + 1, Min(i + batch_size, Len(items)))
             st1 == Attempt(batch, st, env)
         IN  RetryChunks(items, batch_size, i + batch_size,
                 IF st1.ok THEN st1 ELSE RetryWithSmallerBatches(batch, st1, env),
                 env)

\* What flush does when the bulk write of a one-item buffer fails: the else
\* branch re-raises, and the buffer is not cleared.
FlushSingleFailure(buffer, st, env) == [st EXCEPT !.raised = TRUE]

\* BatchWriter.flush_entities / flush_relationships on `buffer`.
\* st: [nodes, edges, att, ok, dropped, raised, buffer, depth, diverged]; the
\* result's buffer is the buffer the call leaves behind.
FlushBuffer(buffer, st0, env) ==
    LET st == [st0 EXCEPT !.buffer = buffer]
    IN  IF Len(buffer) = 0 THEN st
        ELSE LET st1 == Attempt(buffer, st, env)
             IN  IF st1.ok THEN [st1 EXCEPT !.buffer = <<>>]
                 ELSE IF Len(buffer) > 1
                      THEN [RetryWithSmallerBatches(buffer, st1, env)
                                EXCEPT !.buffer = <<>>]
                      ELSE FlushSingleFailure(buffer, st1, env)

StoreState ==
    [nodes |-> nodes, edges |-> edges, att |-> 0, ok |-> TRUE, dropped |-> {},
     raised |-> FALSE, buffer |-> <<>>, depth |-> 0, diverged |-> FALSE]

NoCall ==
    [op |-> "none", ents |-> <<>>, rels |-> <<>>, raised |-> FALSE, flushed |-> FALSE,
     env |-> Reliable, writes |-> 0, dropped |-> {}, diverged |-> FALSE]

BatchInit ==
    /\ entity_buffer = <<>>
    /\ relationship_buffer = <<>>
    /\ nodes = {}
    /\ edges = {}
    /\ added = 0
    /\ blast = NoCall

\* if len(self.entity_buffer) >= self.batch_size (and the same test on the
\* relationship buffer)
MutAboveBatchSize(buffer) == Len(buffer) > BatchSize
BufferFull(buffer) == Len(buffer) >= BatchSize

\* BatchWriter.add_entity
AddEntity(n, m, env) ==
    /\ UNCHANGED <<dedupVars, workerVars, parseVars, cacheVars, taskVars>>
    /\ Len(entity_buffer) + 1 < BatchSize => env = Reliable
    /\ LET buf == Append(entity_buffer, EntityItem(added + 1, n, m))
           flush == BufferFull(buf)
       IN  \E st \in {IF flush THEN FlushBuffer(buf, StoreState, env)
                       ELSE [StoreState EXCEPT !.buffer = buf]} :
           /\ entity_buffer' = st.buffer
           /\ nodes' = st.nodes
           /\ edges' = st.edges
           /\ blast' = [NoCall EXCEPT !.op = "add_entity", !.ents = buf,
                            !.rels = relationship_buffer, !.raised = st.raised,
                            !.flushed = flush,
                            !.env = IF flush THEN env ELSE Reliable, !.writes = st.att,
                            !.dropped = st.dropped, !.diverged = st.diverged]
    /\ added' = added + 1
    /\ UNCHANGED relationship_buffer

\* BatchWriter.add_relationship
AddRelationship(s, t, m, env) ==
    /\ UNCHANGED <<dedupVars, workerVars, parseVars, cacheVars, taskVars>>
    /\ Len(relationship_buffer) + 1 < BatchSize => env = Reliable
    /\ LET buf == Append(relationship_buffer, RelationshipItem(added + 1, s, t, m))
           flush == BufferFull(buf)
       IN  \E st \in {IF flush THEN FlushBuffer(buf, StoreState, env)
                       ELSE [StoreState EXCEPT !.buffer = buf]} :
           /\ relationship_buffer' = st.buffer
           /\ nodes' = st.nodes
           /\ edges' = st.edges
           /\ blast' = [NoCall EXCEPT !.op = "add_relationship", !.ents = entity_buffer,
                            !.rels = buf, !.raised = st.raised,
                            !.flushed = flush,
                            !.env = IF flush THEN env ELSE Reliable, !.writes = st.att,
                            !.dropped = st.dropped, !.diverged = st.diverged]
    /\ added' = added + 1
    /\ UNCHANGED entity_buffer

\* BatchWriter.flush_entities
FlushEntities(env) ==
    /\ UNCHANGED <<dedupVars, workerVars, parseVars, cacheVars, taskVars>>
    /\ \E st \in {FlushBuffer(entity_buffer, StoreState, env)} :
           /\ entity_buffer' = st.buffer
           /\ nodes' = st.nodes
           /\ edges' = st.edges
           /\ blast' = [NoCall EXCEPT !.op = "flush_entities", !.ents = entity_buffer,
                            !.rels = relationship_buffer, !.raised = st.raised,
                            !.flushed = TRUE,
                            !.env = IF st.att > 0 THEN env ELSE Reliable, !.writes = st.att,
                            !.dropped = st.dropped, !.diverged = st.diverged]
    /\ UNCHANGED <<relationship_buffer, added>>

\* BatchWriter.flush_relationships
FlushRelationships(env) ==
    /\ UNCHANGED <<dedupVars, workerVars, parseVars, cacheVars, taskVars>>
    /\ \E st \in {FlushBuffer(relationship_buffer, StoreState, env)} :
           /\ relationship_buffer' = st.buffer
           /\ nodes' = st.nodes
           /\ edges' = st.edges
           /\ blast' = [NoCall EXCEPT !.op = "flush_relationships", !.ents = entity_buffer,
                            !.rels = relationship_buffer, !.raised = st.raised,
                            !.flushed = TRUE,
                            !.env = IF st.att > 0 THEN env ELSE Reliable, !.writes = st.att,
                            !.dropped = st.dropped, !.diverged = st.diverged]
    /\ UNCHANGED <<entity_buffer, added>>

\* BatchWriter.flush_all: flush_entities, then (unless it raised)
\* flush_relationships, against the same store behaviour.
FlushAll(env) ==
    /\ UNCHANGED <<dedupVars, workerVars, parseVars, cacheVars, taskVars>>
    /\ LET st1 == FlushBuffer(entity_buffer, StoreState, env)
           st2 == IF st1.raised THEN st1
                  ELSE FlushBuffer(relationship_buffer, st1, env)
       IN  /\ entity_buffer' = st1.buffer
           /\ relationship_buffer' = IF st1.raised THEN relationship_buffer ELSE st2.buffer
           /\ nodes' = st2.nodes
           /\ edges' = st2.edges
           /\ blast' = [NoCall EXCEPT !.op = "flush_all", !.ents = entity_buffer,
                            !.rels = relationship_buffer, !.raised = st2.raised,
                            !.flushed = TRUE,
                            !.env = IF st2.att > 0 THEN env ELSE Reliable, !.writes = st2.att,
                            !.dropped = st2.dropped, !.diverged = st2.diverged]
    /\ UNCHANGED added

BatchNext ==
    \/ \E n \in Names, m \in BOOLEAN, env \in Envs : added < MaxAdds /\ AddEntity(n, m, env)
    \/ \E m \in BOOLEAN, env \in Envs : added < MaxAdds /\ AddRelationship("a", "b", m, env)
    \/ \E env \in Envs : FlushEntities(env)
    \/ \E env \in Envs : FlushRelationships(env)
    \/ \E env \in Envs : FlushAll(env)

\* A caller that only adds well-formed items and finishes with flush_all,
\* against a store that accepts every write; it adds enough items for a
\* buffer to fill while the other one holds items.
OrderedAdds == BatchSize + 2
OrderedNext ==
    \/ \E n \in Names : added < OrderedAdds /\ AddEntity(n, FALSE, Reliable)
    \/ added < OrderedAdds /\ AddRelationship("a", "b", FALSE, Reliable)
    \/ FlushAll(Reliable)

(***************************************************************************)
(*                  EntityDeduplicator, Neo4jEntityStore                   *)
(***************************************************************************)

\* How many find_or_create_entity calls one run of the model makes.
MaxCalls == 3

\* EntityDeduplicator.similarity_threshold (default 90.0), on the 0-100 scale.
SimilarityThreshold == 90

\* Entity names are strings, modelled as sequences of characters.
Oracle == <<"O", "r", "a", "c", "l", "e">>
oracle == <<"o", "r", "a", "c", "l", "e">>
Oracl  == <<"O", "r", "a", "c", "l">>
Amazon == <<"A", "m", "a", "z", "o", "n">>
EntityNames == {Oracle, oracle, Oracl, Amazon}
\* Names for _find_duplicate_entity called on its own: the lower-cased scores
\* against Microsoft are 100 (microsoft), 200 * 8 / 17 = 94.1 (Micrsoft),
\* 200 * 9 / 20 = 90 exactly (MicrosoftCo) and 200 * 2 / 15 = 26.7 (Amazon).
Microsoft == <<"M", "i", "c", "r", "o", "s", "o", "f", "t">>
microsoft == <<"m", "i", "c", "r", "o", "s", "o", "f", "t">>
Micrsoft == <<"M", "i", "c", "r", "s", "o", "f", "t">>
MicrosoftCo == <<"M", "i", "c", "r", "o", "s", "o", "f", "t", "C", "o">>
FindNames == <<Microsoft, microsoft, Micrsoft, MicrosoftCo, Amazon>>
EntityTypes == {"company", "product"}
\* confidence_score, in tenths.
Confidences == {5, 9}

\* str.lower()
LowerChar(c) ==
    CASE c = "O" -> "o"
      [] c = "A" -> "a"
      [] c = "M" -> "m"
      [] c = "C" -> "c"
      [] OTHER -> c
Lower(str) == [i \in 1..Len(str) |-> LowerChar(str[i])]

\* One row of the longest-common-subsequence table: the lengths for the
\* prefix of s ending in character c against t[1..j], j = 1..Len(t), from the
\* row prev of the prefix one character shorter.
RECURSIVE LCSRow(_, _, _, _)
LCSRow(c, t, prev, row) ==
    IF Len(row) = Len(t) THEN row
    ELSE LET j == Len(row) + 1
             diag == IF j = 1 THEN 0 ELSE prev[j - 1]
             left == IF j = 1 THEN 0 ELSE row[j - 1]
         IN  LCSRow(c, t, prev,
                 Append(row, IF c = t[j] THEN diag + 1
                             ELSE IF prev[j] >= left THEN prev[j] ELSE left))

RECURSIVE LCSRows(_, _, _, _)
LCSRows(s, i, t, k) ==
    IF k = 0 THEN [j \in 1..Len(t) |-> 0]
    ELSE LCSRow(s[k], t, LCSRows(s, i, t, k - 1), <<>>)

\* Length of the longest common subsequence of s[1..i] and t[1..j].
LCS(s, i, t, j) ==
    IF i = 0 \/ j = 0 THEN 0
    ELSE LCSRows(s, i, SubSeq(t, 1, j), i)[j]

\* rapidfuzz.fuzz.ratio(s, t): the normalized Indel similarity
\* 100 * 2 * LCS / (len(s) + len(t)), kept as a fraction num / den
\* (100 when both strings are empty).
Ratio(s, t) ==
    IF Len(s) + Len(t) = 0 THEN [num |-> 100, den |-> 1]
    ELSE [num |-> 200 * LCS(s, Len(s), t, Len(t)), den |-> Len(s) + Len(t)]

\* r1 > r2 on fractions; r > an integer score.
RatioGreater(r1, r2) == r1.num * r2.den > r2.num * r1.den
RatioAbove(r, score) == r.num > score * r.den

\* Neo4jEntityStore.find_entity_by_name_and_type: the entities a
\* MATCH (e:Entity {name: $name, type: $type}) ... LIMIT 1 may return.
MutNoExactMatch(store, name, type) == {}
ExactMatches(store, name, type) ==
    {e \in store : e.name = name /\ e.type = type}

\* Neo4jEntityStore.find_similar_entities: every entity of the type.
MutAllTypes(store, type) == store
SimilarEntities(store, type) == {e \in store : e.type = type}

\* The orders in which the store may return the records of a query.
Orders(S) ==
    {o \in [1..Cardinality(S) -> S] : \A i, j \in 1..Cardinality(S) : i # j => o[i] # o[j]}

NoMatch == [id |-> 0]
InitialBest == [match |-> NoMatch, similarity |-> [num |-> 0, den |-> 1]]

\* The test of the loop of _find_duplicate_entity:
\* similarity > best_similarity and similarity > self.similarity_threshold
MutAtLeastThreshold(similarity, best_similarity) ==
    /\ RatioGreater(similarity, best_similarity)
    /\ similarity.num >= SimilarityThreshold * similarity.den
MutLastAbove(similarity, best_similarity) ==
    RatioAbove(similarity, SimilarityThreshold)
IsBetter(similarity, best_similarity) ==
    /\ RatioGreater(similarity, best_similarity)
    /\ RatioAbove(similarity, SimilarityThreshold)

\* EntityDeduplicator._find_duplicate_entity: the loop over the candidates in
\* the order the store returned them.
RECURSIVE FindDuplicateLoop(_, _, _, _)
FindDuplicateLoop(entity_name_lower, candidates, i, best) ==
    IF i > Len(candidates) THEN best.match
    ELSE LET similarity == Ratio(entity_name_lower, Lower(candidates[i].name))
         IN  FindDuplicateLoop(entity_name_lower, candidates, i + 1,
                 IF IsBetter(similarity, best.similarity)
                 THEN [match |-> candidates[i], similarity |-> similarity]
                 ELSE best)

MutCaseSensitive(entity_name, candidates) ==
    FindDuplicateLoop(entity_name, candidates, 1, InitialBest)
FindDuplicateEntity(entity_name, candidates) ==
    FindDuplicateLoop(Lower(entity_name), candidates, 1, InitialBest)

\* Neo4jEntityStore.merge_entities(source_entity_id, target_entity_id,
\* new_confidence).  The query SETs the target's confidence, moves the CONTAINS
\* relationships and then DETACH DELETEs the source.  Called with the same id
\* for both, the statement either runs to its end, and the node is deleted, or
\* is rejected by the database (the MERGE on a null document, the clause
\* order), the transaction rolls back and the call raises.
MergeOutcomes == {"deleted", "raise"}
MergeEntities(store, source_entity_id, target_entity_id, new_confidence, outcome) ==
    IF outcome = "raise" THEN store
    ELSE LET updated ==
                 {IF e.id = target_entity_id
                  THEN [e EXCEPT !.confidence_score = new_confidence] ELSE e : e \in store}
         IN  {e \in updated : e.id # source_entity_id}

\* Neo4jEntityStore.store_entity
MutStoreWithoutType(store, id, name, type, confidence) ==
    store \cup {[id |-> id, name |-> name, type |-> "", confidence_score |-> confidence]}
StoreEntity(store, id, name, type, confidence) ==
    store \cup {[id |-> id, name |-> name, type |-> type, confidence_score |-> confidence]}

\* When the deduplicator calls merge_entities for a fuzzy match.
MutAlwaysUpdate(confidence_score, stored_score) == TRUE
ShouldUpdate(confidence_score, stored_score) == confidence_score > stored_score

NoDedupCall ==
    [name |-> <<>>, type |-> "", confidence_score |-> 0, outcome |-> "none", id |-> 0,
     raised |-> FALSE, match |-> NoMatch, before |-> {}]

DedupInit ==
    /\ entities = {}
    /\ next_id = 1
    /\ calls = 0
    /\ dlast = NoDedupCall
    /\ dprev = NoDedupCall

Returned(name, type, confidence, outcome, id, match) ==
    /\ dlast' = [name |-> name, type |-> type, confidence_score |-> confidence,
                 outcome |-> outcome, id |-> id, raised |-> outcome = "raised",
                 match |-> match, before |-> entities]
    /\ dprev' = [dlast EXCEPT !.before = {}]
    /\ calls' = calls + 1

\* EntityDeduplicator.find_or_create_entity, run to completion.
FindOrCreateEntity(name, type, confidence) ==
    /\ UNCHANGED <<batchVars, workerVars, parseVars, cacheVars, taskVars>>
    /\ calls < MaxCalls
    /\ IF ExactMatches(entities, name, type) # {}
       THEN \E existing \in ExactMatches(entities, name, type) :
                /\ Returned(name, type, confidence, "exact", existing.id, existing)
                /\ UNCHANGED <<entities, next_id>>
       ELSE \E candidates \in Orders(SimilarEntities(entities, type)) :
              \E duplicate \in {FindDuplicateEntity(name, candidates)} :
                IF duplicate # NoMatch
                THEN IF ShouldUpdate(confidence, duplicate.confidence_score)
                     THEN \E outcome \in MergeOutcomes :
                            /\ entities' = MergeEntities(entities, duplicate.id,
                                                duplicate.id, confidence, outcome)
                            /\ Returned(name, type, confidence,
                                   IF outcome = "raise" THEN "raised" ELSE "merged",
                                   IF outcome = "raise" THEN 0 ELSE duplicate.id,
                                   duplicate)
                            /\ UNCHANGED next_id
                     ELSE /\ Returned(name, type, confidence, "fuzzy", duplicate.id,
                                 duplicate)
                          /\ UNCHANGED <<entities, next_id>>
                ELSE /\ entities' = StoreEntity(entities, next_id, name, type, confidence)
                     /\ next_id' = next_id + 1
                     /\ Returned(name, type, confidence, "created", next_id, NoMatch)

DedupNext ==
    \E name \in EntityNames, type \in EntityTypes, confidence \in Confidences :
        FindOrCreateEntity(name, type, confidence)

\* How many entities the store holds when _find_duplicate_entity is called
\* on its own.
MaxStored == 3

\* The stores _find_duplicate_entity may run against: up to MaxStored entities
\* with names of FindNames, each (name, type) pair under an id of its own.
FindTypes == <<"company", "product">>
FindEntity(i, j) ==
    [id |-> 2 * i + j, name |-> FindNames[i], type |-> FindTypes[j], confidence_score |-> 5]
FindStores ==
    {{FindEntity(p[1], p[2]) : p \in S} :
        S \in {T \in SUBSET ((1..Len(FindNames)) \X (1..Len(FindTypes))) :
                  Cardinality(T) <= MaxStored}}

FindInit ==
    /\ entities \in FindStores
    /\ next_id = 2 * Len(FindNames) + Len(FindTypes) + 1
    /\ calls = 0
    /\ dlast = NoDedupCall
    /\ dprev = NoDedupCall

\* EntityDeduplicator._find_duplicate_entity(entity_name, entity_type):
\* find_similar_entities, then the loop.  The function reads the store and
\* writes nothing, so one call per run shows all it does.
FindDuplicate(entity_name, entity_type) ==
    /\ UNCHANGED <<batchVars, workerVars, parseVars, cacheVars, taskVars>>
    /\ calls = 0
    /\ \E candidates \in Orders(SimilarEntities(entities, entity_type)) :
           dlast' = [NoDedupCall EXCEPT !.name = entity_name, !.type = entity_type,
                        !.outcome = "find",
                        !.match = FindDuplicateEntity(entity_name, candidates),
                        !.before = entities]
    /\ calls' = calls + 1
    /\ UNCHANGED <<entities, next_id, dprev>>

FindNext ==
    \E i \in 1..Len(FindNames), j \in 1..Len(FindTypes) :
        FindDuplicate(FindNames[i], FindTypes[j])

(***************************************************************************)
(*                  process_documents and LightRAGQueue                    *)
(***************************************************************************)

\* How many documents are ingested in one run of the model.
MaxDocs == 2
Docs == 1..MaxDocs

NoItem == [doc_id |-> 0, text |-> FALSE]

WorkerInit ==
    /\ queue = <<>>
    /\ unfinished = 0
    /\ processing = [d \in Docs |-> "none"]
    /\ db_status = [d \in Docs |-> "none"]
    /\ pc = "get"
    /\ item = NoItem
    /\ trail = <<>>
    /\ faulted = FALSE
    /\ handled = [d \in Docs |->
                      [text |-> FALSE, dequeued |-> 0, extracted |-> 0, failure |-> FALSE,
                       enq |-> 0, deq |-> 0]]

\* asyncio.Queue.task_done(): raises ValueError when there is no unfinished
\* task, and decrements the count otherwise.
TaskDoneRaises(u) == u <= 0
TaskDone(u) == IF u <= 0 THEN u ELSE u - 1

\* The ingest route (routers/documents.py) sets the document's status to
\* queued and calls LightRAGQueue.enqueue: queue.put, then
\* self.processing[doc_id] = "queued".  `text` says whether the parsed content
\* has text.
Enqueue(d, text) ==
    /\ UNCHANGED <<batchVars, dedupVars, parseVars, cacheVars, taskVars>>
    /\ db_status[d] = "none"
    /\ queue' = Append(queue, [doc_id |-> d, text |-> text])
    /\ unfinished' = unfinished + 1
    /\ processing' = [processing EXCEPT ![d] = "queued"]
    /\ db_status' = [db_status EXCEPT ![d] = "queued"]
    /\ handled' = [handled EXCEPT ![d].text = text,
                                  ![d].enq = Cardinality({e \in Docs : handled[e].enq > 0}) + 1]
    /\ UNCHANGED <<pc, item, trail, faulted>>

\* The `finally` clause, reached with no exception in flight: task_done(),
\* whose ValueError leaves the `while True` loop and ends the coroutine.
Finally(u) ==
    /\ unfinished' = TaskDone(u)
    /\ pc' = IF TaskDoneRaises(u) THEN "crashed" ELSE "get"

\* The `except Exception` clause up to its await: the document is marked
\* failed and _update_document_status is awaited.
MutExceptKeepsStatus ==
    /\ processing' = processing
    /\ trail' = trail
    /\ pc' = "upd_except"
ExceptClause ==
    /\ processing' = [processing EXCEPT ![item.doc_id] = "failed"]
    /\ trail' = Append(trail, "failed")
    /\ pc' = "upd_except"

\* content = parsed_content.get("text", ""); `if not content` is its negation.
MutAlwaysContent(queue_item) == TRUE
HasContent(queue_item) == queue_item.text

\* The rank the next dequeued item gets (history).
DequeueRank == Cardinality({e \in Docs : handled[e].deq > 0}) + 1

\* asyncio.Queue.get(): the item put first.
MutLastPut(q) == q[Len(q)]
QueueGet(q) == Head(q)

\* queue.queue.get() returns: lines 50-84 up to the first await that suspends,
\* which is extract_entities for a document with text and
\* _update_document_status for one without.
WorkerGet ==
    /\ UNCHANGED <<batchVars, dedupVars, parseVars, cacheVars, taskVars>>
    /\ pc = "get"
    /\ queue # <<>>
    /\ item' = QueueGet(queue)
    /\ queue' = Tail(queue)
    /\ IF HasContent(QueueGet(queue))
       THEN /\ processing' = [processing EXCEPT ![QueueGet(queue).doc_id] = "processing"]
            /\ trail' = <<"processing">>
            /\ pc' = "extract"
            /\ handled' = [handled EXCEPT ![QueueGet(queue).doc_id].dequeued = @ + 1,
                                          ![QueueGet(queue).doc_id].extracted = @ + 1,
                                          ![QueueGet(queue).doc_id].deq = DequeueRank]
       ELSE /\ processing' = [processing EXCEPT ![QueueGet(queue).doc_id] = "indexed"]
            /\ trail' = <<"processing", "indexed">>
            /\ pc' = "upd_empty"
            /\ handled' = [handled EXCEPT ![QueueGet(queue).doc_id].dequeued = @ + 1,
                                          ![QueueGet(queue).doc_id].deq = DequeueRank]
    /\ UNCHANGED <<unfinished, db_status, faulted>>

\* lightrag_client.extract_entities returns (it catches every Exception and
\* reports status "failed"): lines 86-97 or 105-108 up to the await.
ExtractReturns(status) ==
    /\ UNCHANGED <<batchVars, dedupVars, parseVars, cacheVars, taskVars>>
    /\ pc = "extract"
    /\ processing' = [processing EXCEPT ![item.doc_id] =
                          IF status = "success" THEN "indexed" ELSE "failed"]
    /\ trail' = Append(trail, IF status = "success" THEN "indexed" ELSE "failed")
    /\ pc' = IF status = "success" THEN "upd_indexed" ELSE "upd_failed"
    /\ handled' = [handled EXCEPT ![item.doc_id].failure = @ \/ status # "success"]
    /\ UNCHANGED <<queue, unfinished, db_status, item, faulted>>

\* _update_document_status, awaited in the try block (lines 75, 97, 108),
\* returns or raises.
UpdateReturns(raises) ==
    /\ UNCHANGED <<batchVars, dedupVars, parseVars, cacheVars, taskVars>>
    /\ pc \in {"upd_empty", "upd_indexed", "upd_failed"}
    /\ IF raises
       THEN /\ ExceptClause
            /\ faulted' = TRUE
            /\ UNCHANGED <<unfinished, db_status>>
       ELSE /\ db_status' = [db_status EXCEPT ![item.doc_id] =
                                 IF pc = "upd_failed" THEN "failed" ELSE "indexed"]
            /\ faulted' = faulted
            /\ IF pc = "upd_empty"
               THEN \* line 76: task_done(), then `continue` runs the finally clause
                    IF TaskDoneRaises(unfinished)
                    THEN ExceptClause /\ UNCHANGED unfinished
                    ELSE Finally(TaskDone(unfinished)) /\ UNCHANGED <<processing, trail>>
               ELSE Finally(unfinished) /\ UNCHANGED <<processing, trail>>
    /\ handled' = [handled EXCEPT ![item.doc_id].failure = @ \/ raises]
    /\ UNCHANGED <<queue, item>>

\* _update_document_status, awaited in the except clause (line 128), returns
\* or raises; the finally clause follows.
UpdateExceptReturns(raises) ==
    /\ UNCHANGED <<batchVars, dedupVars, parseVars, cacheVars, taskVars>>
    /\ pc = "upd_except"
    /\ IF raises
       THEN /\ unfinished' = TaskDone(unfinished)
            /\ pc' = "crashed"
            /\ faulted' = TRUE
            /\ UNCHANGED db_status
       ELSE /\ db_status' = [db_status EXCEPT ![item.doc_id] = "failed"]
            /\ Finally(unfinished)
            /\ faulted' = faulted
    /\ handled' = [handled EXCEPT ![item.doc_id].failure = @ \/ raises]
    /\ UNCHANGED <<queue, processing, item, trail>>

\* The worker task is cancelled while suspended in an await: CancelledError
\* is no Exception, so only the finally clause runs and the coroutine ends.
Cancel ==
    /\ UNCHANGED <<batchVars, dedupVars, parseVars, cacheVars, taskVars>>
    /\ pc \in {"get", "extract", "upd_empty", "upd_indexed", "upd_failed", "upd_except"}
    /\ unfinished' = TaskDone(unfinished)
    /\ pc' = "cancelled"
    /\ faulted' = TRUE
    /\ UNCHANGED <<queue, processing, db_status, item, trail, handled>>

WorkerNext ==
    \/ \E d \in Docs, text \in BOOLEAN : Enqueue(d, text)
    \/ WorkerGet
    \/ \E status \in {"success", "failed"} : ExtractReturns(status)
    \/ \E raises \in BOOLEAN : UpdateReturns(raises)
    \/ \E raises \in BOOLEAN : UpdateExceptReturns(raises)
    \/ Cancel

(***************************************************************************)
(*     EntityExtractor / RelationshipExtractor: _parse_llm_response        *)
(***************************************************************************)

\* The longest model response, in tokens.
MaxLen == 4

\* The response text as a sequence of tokens:
\*   "F"  a code fence ```            "J"  the word json
\*   "["  "]"  brackets               "x"  any other text (prose)
\*   "o"  a JSON object that passes the record's validation
\*   "u"  a JSON object with valid fields that names its type freely:
\*        entity_type "unicorn", relationship_type "mentions"
\*   "b"  a JSON object that fails it (a missing field, a confidence out of
\*        range, an unknown relationship type)
\* White space and the commas between the elements of an array are not
\* modelled: adjacent element tokens stand for a well-separated list.
Tokens == {"F", "J", "[", "]", "o", "u", "b", "x"}
Responses == UNION {[1..n -> Tokens] : n \in 0..MaxLen}

NotParsed == [kind |-> "none", raised |-> FALSE, items |-> <<>>]

\* The extractors before any extraction was requested: no response yet.
ParseInit ==
    /\ llm_response = <<>>
    /\ parsed = NotParsed

\* Number of "[" minus number of "]" in str[1..i].
RECURSIVE Depth(_, _)
Depth(str, i) ==
    IF i = 0 THEN 0
    ELSE Depth(str, i - 1)
         + (IF str[i] = "[" THEN 1 ELSE IF str[i] = "]" THEN -1 ELSE 0)

\* json.loads(json_str) succeeds: json_str is one JSON array, its elements
\* objects or arrays.
JsonLoads(json_str) ==
    /\ Len(json_str) >= 2
    /\ \A i \in 1..Len(json_str) : json_str[i] \in {"[", "]", "o", "u", "b"}
    /\ \A i \in 1..(Len(json_str) - 1) : Depth(json_str, i) >= 1
    /\ Depth(json_str, Len(json_str)) = 0

\* The JSON array texts among the responses, an array text wrapped in ```json
\* fences, the arrays of MaxLen - 1 objects, and the responses the model
\* draws from: every text of up to MaxLen tokens, every array text of up to
\* MaxLen tokens in fences, and every array of MaxLen - 1 objects.
Arrays == {A \in Responses : JsonLoads(A)}
Fenced(A) == <<"F", "J">> \o A \o <<"F">>
FlatArrays == {<<"[">> \o e \o <<"]">> : e \in [1..(MaxLen - 1) -> {"o", "u", "b"}]}
LLMResponses == Responses \cup {Fenced(A) : A \in Arrays} \cup FlatArrays

\* The objects of a response.  As an entity: "o" is {entity_name A,
\* entity_type company, confidence_score 0.9}, "u" is {B, unicorn, 0.8}, "b" is
\* {C, company, 1.5}.  As a relationship: "o" is {source_entity_name A,
\* relationship_type MENTIONS, confidence_score 0.9}, "u" is {B, mentions, 0.9},
\* "b" is {C, KNOWS, 0.9}.  Confidences are in tenths.
Objects == {"o", "u", "b"}
NameOf(tok) == CASE tok = "o" -> "A" [] tok = "u" -> "B" [] OTHER -> "C"
EntityTypeOf(tok) == IF tok = "u" THEN "unicorn" ELSE "company"
ConfidenceOf(tok, kind) == IF tok = "b" /\ kind = "entities" THEN 15 ELSE 9
RelationshipTypeOf(tok) ==
    CASE tok = "o" -> "MENTIONS" [] tok = "u" -> "mentions" [] OTHER -> "KNOWS"

\* The type names of the catalog the extractor loaded (self.entity_types).
Catalog == {"company", "product"}

\* str.isupper() and str.upper() on the relationship types of the model.
IsUpper(v) == v \in {"MENTIONS", "KNOWS"}
Upper(v) == IF v = "mentions" THEN "MENTIONS" ELSE v

\* ExtractedRelationship.validate_relationship_type: valid_types, and the
\* validator itself, which returns the normalized type or raises.
ValidTypes ==
    {"MENTIONS", "RELATED_TO", "PART_OF", "IMPLEMENTS", "DEPENDS_ON", "LOCATED_IN",
     "AUTHORED_BY"}
MutNoVocabulary(v0) == [ok |-> TRUE, value |-> Upper(v0)]
MutNoNormalization(v0) == [ok |-> v0 \in ValidTypes, value |-> v0]
ValidateRelationshipType(v0) ==
    LET v == IF ~IsUpper(v0) THEN Upper(v0) ELSE v0
    IN  [ok |-> v \in ValidTypes, value |-> v]

\* validate_confidence (and Field(ge=0.0, le=1.0)), in tenths.
ValidateConfidence(v) == 0 <= v /\ v <= 10

\* ExtractedEntity(**entity_data) / ExtractedRelationship(**rel_data): the
\* record created, or ok = FALSE when validation raises.
ExtractedEntity(tok) ==
    [ok |-> ValidateConfidence(ConfidenceOf(tok, "entities")),
     record |-> [name |-> NameOf(tok), type |-> EntityTypeOf(tok)]]
ExtractedRelationship(tok) ==
    [ok |-> /\ ValidateConfidence(ConfidenceOf(tok, "relationships"))
            /\ ValidateRelationshipType(RelationshipTypeOf(tok)).ok,
     record |-> [name |-> NameOf(tok),
                 type |-> ValidateRelationshipType(RelationshipTypeOf(tok)).value]]
Validated(tok, kind) ==
    IF kind = "entities" THEN ExtractedEntity(tok) ELSE ExtractedRelationship(tok)

\* The for loop over the parsed array: an element that is an object passing
\* validation is appended; any other element (an object failing validation, a
\* nested array) raises inside the try and is skipped.
MutBreakOnInvalid(json_str, i, kind) ==
    LET invalid == {k \in i..Len(json_str) :
                       ~(/\ json_str[k] \in Objects
                         /\ Depth(json_str, k) = 1
                         /\ Validated(json_str[k], kind).ok)}
        stop == CHOOSE k \in invalid : \A j \in invalid : k <= j
    IN  [k \in 1..(stop - i) |-> Validated(json_str[i + k - 1], kind).record]
RECURSIVE ParseEach(_, _, _)
ParseEach(json_str, i, kind) ==
    IF i >= Len(json_str) THEN <<>>
    ELSE IF /\ json_str[i] \in Objects
            /\ Depth(json_str, i) = 1
            /\ Validated(json_str[i], kind).ok
         THEN <<Validated(json_str[i], kind).record>> \o ParseEach(json_str, i + 1, kind)
         ELSE ParseEach(json_str, i + 1, kind)

\* re.search(r"```(?:json)?\s*(\[.*?\])\s*```", llm_response, re.DOTALL):
\* the fence positions p at which the pattern matches, q the position of the
\* group's "[" and the set of positions r of a "]" followed by a fence.
FenceOpen(resp, p) ==
    IF p + 1 <= Len(resp) /\ resp[p + 1] = "J" THEN p + 2 ELSE p + 1
FenceEnds(resp, q) ==
    {r \in (q + 1)..(Len(resp) - 1) : resp[r] = "]" /\ resp[r + 1] = "F"}
FenceStarts(resp) ==
    {p \in 1..Len(resp) :
        /\ resp[p] = "F"
        /\ FenceOpen(resp, p) <= Len(resp)
        /\ resp[FenceOpen(resp, p)] = "["
        /\ FenceEnds(resp, FenceOpen(resp, p)) # {}}

MinOf(S) == CHOOSE m \in S : \A k \in S : m <= k

\* group(1) of the leftmost match, the lazy .*? ending at the first "]" that
\* a fence follows.
FencedJson(resp) ==
    LET q == FenceOpen(resp, MinOf(FenceStarts(resp)))
    IN  SubSeq(resp, q, MinOf(FenceEnds(resp, q)))

\* re.search(r"\[.*?\]", llm_response, re.DOTALL): from the first "[" to the
\* first "]" after it.
BareStarts(resp) ==
    {q \in 1..Len(resp) :
        resp[q] = "[" /\ \E r \in (q + 1)..Len(resp) : resp[r] = "]"}
BareJson(resp) ==
    LET q == MinOf(BareStarts(resp))
    IN  SubSeq(resp, q, MinOf({r \in (q + 1)..Len(resp) : resp[r] = "]"}))

\* What _parse_llm_response does with a json_str that json.loads rejects:
\* it logs and raises ValueError.
MutInvalidIsEmpty(kind) == [kind |-> kind, raised |-> FALSE, items |-> <<>>]
InvalidJson(kind) == [kind |-> kind, raised |-> TRUE, items |-> <<>>]

\* EntityExtractor._parse_llm_response and
\* RelationshipExtractor._parse_llm_response (the same code)
ParseLLMResponse(resp, kind) ==
    IF FenceStarts(resp) = {} /\ BareStarts(resp) = {}
    THEN [kind |-> kind, raised |-> FALSE, items |-> <<>>]
    ELSE LET json_str == IF FenceStarts(resp) # {} THEN FencedJson(resp)
                         ELSE BareJson(resp)
         IN  IF JsonLoads(json_str)
             THEN [kind |-> kind, raised |-> FALSE, items |-> ParseEach(json_str, 2, kind)]
             ELSE InvalidJson(kind)

\* EntityExtractor.extract_entities on a document with id and text: the
\* model answers resp (_call_llm), which is parsed.  One extraction per run.
ExtractEntities ==
    /\ UNCHANGED <<batchVars, dedupVars, workerVars, cacheVars, taskVars>>
    /\ parsed = NotParsed
    /\ \E resp \in LLMResponses :
           /\ llm_response' = resp
           /\ parsed' = ParseLLMResponse(resp, "entities")

\* RelationshipExtractor.extract_relationships on a non-empty entity list:
\* the model answers resp, which is parsed.
ExtractRelationships ==
    /\ UNCHANGED <<batchVars, dedupVars, workerVars, cacheVars, taskVars>>
    /\ parsed = NotParsed
    /\ \E resp \in LLMResponses :
           /\ llm_response' = resp
           /\ parsed' = ParseLLMResponse(resp, "relationships")

ParseNext ==
    \/ ExtractEntities
    \/ ExtractRelationships

(***************************************************************************)
(*          entity_config: load_entity_types and its module cache          *)
(***************************************************************************)

\* How many entity_config calls one run of the model makes.
MaxLoads == 5

\* The paths load_entity_types is called with, and what is found there: two
\* valid configurations, no file, and a YAML file without `entity_types`.
Paths == {"config", "other", "nonexistent", "invalid"}
PathExists(path) == path # "nonexistent"
HasEntityTypesKey(path) == path # "invalid"
TypeNamesAt(path) == IF path = "config" THEN <<"company", "product">> ELSE <<"person">>

\* _entity_types_cache = None; a loaded list is the type names with `list`,
\* the identity of the list object (the rank of the load that built it).
None == [list |-> 0, type_names |-> <<>>]

NoConfigCall == [op |-> "none", path |-> "", outcome |-> "none", result |-> None, before |-> None]

CacheInit ==
    /\ entity_types_cache = None
    /\ loads = 0
    /\ clast = NoConfigCall

\* if _entity_types_cache is not None: return _entity_types_cache
MutNeverCached(cache) == FALSE
IsCached(cache) == cache # None

\* load_entity_types(path)
LoadEntityTypes(path) ==
    /\ UNCHANGED <<batchVars, dedupVars, workerVars, parseVars, taskVars>>
    /\ loads < MaxLoads
    /\ loads' = loads + 1
    /\ IF IsCached(entity_types_cache)
       THEN /\ clast' = [op |-> "load", path |-> path, outcome |-> "returned",
                         result |-> entity_types_cache, before |-> entity_types_cache]
            /\ UNCHANGED entity_types_cache
       ELSE IF ~PathExists(path)
       THEN /\ clast' = [op |-> "load", path |-> path, outcome |-> "FileNotFoundError",
                         result |-> None, before |-> entity_types_cache]
            /\ UNCHANGED entity_types_cache
       ELSE IF ~HasEntityTypesKey(path)
       THEN /\ clast' = [op |-> "load", path |-> path, outcome |-> "ValueError",
                         result |-> None, before |-> entity_types_cache]
            /\ UNCHANGED entity_types_cache
       ELSE LET entity_types == [list |-> loads + 1, type_names |-> TypeNamesAt(path)]
            IN  /\ entity_types_cache' = entity_types
                /\ clast' = [op |-> "load", path |-> path, outcome |-> "returned",
                             result |-> entity_types, before |-> entity_types_cache]

\* clear_entity_types_cache()
ClearEntityTypesCache ==
    /\ UNCHANGED <<batchVars, dedupVars, workerVars, parseVars, taskVars>>
    /\ loads < MaxLoads
    /\ loads' = loads + 1
    /\ entity_types_cache' = None
    /\ clast' = [NoConfigCall EXCEPT !.op = "clear", !.before = entity_types_cache]

\* EntityExtractor.extract_entities: build_extraction_prompt(self.entity_types,
\* text) reads the list the extractor holds; the module cache is not touched.
BuildExtractionPrompt ==
    /\ UNCHANGED <<batchVars, dedupVars, workerVars, parseVars, taskVars>>
    /\ loads < MaxLoads
    /\ loads' = loads + 1
    /\ clast' = [NoConfigCall EXCEPT !.op = "extract", !.before = entity_types_cache]
    /\ UNCHANGED entity_types_cache

CacheNext ==
    \/ \E path \in Paths : LoadEntityTypes(path)
    \/ ClearEntityTypesCache
    \/ BuildExtractionPrompt

(***************************************************************************)
(*     find_or_create_entity called from several tasks of one event loop   *)
(***************************************************************************)

\* The tasks that each make one find_or_create_entity call on the shared
\* store.  A coroutine runs without interruption up to its next await of a
\* store query; the query is one transaction.
Tasks == {"t1", "t2"}
TaskNames == {Oracle, Oracl}

NoTask ==
    [pc |-> "idle", name |-> <<>>, type |-> "", confidence_score |-> 0,
     duplicate |-> NoMatch, id |-> 0]

TaskInit == tasks = [t \in Tasks |-> NoTask]

\* find_or_create_entity is called: up to the await of
\* find_entity_by_name_and_type.
TaskCall(t, name, type, confidence) ==
    /\ UNCHANGED <<batchVars, workerVars, parseVars, cacheVars>>
    /\ tasks[t].pc = "idle"
    /\ tasks' = [tasks EXCEPT ![t] = [NoTask EXCEPT !.pc = "exact", !.name = name,
                                         !.type = type, !.confidence_score = confidence]]
    /\ UNCHANGED dedupVars

\* find_entity_by_name_and_type returns: the exact match is returned, or
\* _find_duplicate_entity is entered up to the await of find_similar_entities.
TaskExactReturns(t) ==
    /\ UNCHANGED <<batchVars, workerVars, parseVars, cacheVars>>
    /\ tasks[t].pc = "exact"
    /\ IF ExactMatches(entities, tasks[t].name, tasks[t].type) # {}
       THEN \E existing \in ExactMatches(entities, tasks[t].name, tasks[t].type) :
                tasks' = [tasks EXCEPT ![t].pc = "done", ![t].id = existing.id]
       ELSE tasks' = [tasks EXCEPT ![t].pc = "similar"]
    /\ UNCHANGED dedupVars

\* find_similar_entities returns: the loop of _find_duplicate_entity, then
\* find_or_create_entity up to the await of merge_entities or store_entity, or
\* to its return.
TaskSimilarReturns(t) ==
    /\ UNCHANGED <<batchVars, workerVars, parseVars, cacheVars>>
    /\ tasks[t].pc = "similar"
    /\ \E candidates \in Orders(SimilarEntities(entities, tasks[t].type)) :
         \E duplicate \in {FindDuplicateEntity(tasks[t].name, candidates)} :
           tasks' = [tasks EXCEPT ![t] =
               IF duplicate = NoMatch THEN [@ EXCEPT !.pc = "store"]
               ELSE IF ShouldUpdate(@.confidence_score, duplicate.confidence_score)
               THEN [@ EXCEPT !.pc = "merge", !.duplicate = duplicate]
               ELSE [@ EXCEPT !.pc = "done", !.duplicate = duplicate, !.id = duplicate.id]]
    /\ UNCHANGED dedupVars

\* merge_entities returns or raises.
TaskMergeReturns(t, outcome) ==
    /\ UNCHANGED <<batchVars, workerVars, parseVars, cacheVars>>
    /\ tasks[t].pc = "merge"
    /\ entities' = MergeEntities(entities, tasks[t].duplicate.id, tasks[t].duplicate.id,
                                 tasks[t].confidence_score, outcome)
    /\ tasks' = [tasks EXCEPT ![t] =
                    IF outcome = "raise" THEN [@ EXCEPT !.pc = "raised"]
                    ELSE [@ EXCEPT !.pc = "done", !.id = tasks[t].duplicate.id]]
    /\ UNCHANGED <<next_id, calls, dlast, dprev>>

\* store_entity returns the id of the node it created.
TaskStoreReturns(t) ==
    /\ UNCHANGED <<batchVars, workerVars, parseVars, cacheVars>>
    /\ tasks[t].pc = "store"
    /\ entities' = StoreEntity(entities, next_id, tasks[t].name, tasks[t].type,
                               tasks[t].confidence_score)
    /\ next_id' = next_id + 1
    /\ tasks' = [tasks EXCEPT ![t].pc = "done", ![t].id = next_id]
    /\ UNCHANGED <<calls, dlast, dprev>>

TaskNext ==
    \/ \E t \in Tasks, name \in TaskNames, type \in EntityTypes, confidence \in Confidences :
           TaskCall(t, name, type, confidence)
    \/ \E t \in Tasks : TaskExactReturns(t)
    \/ \E t \in Tasks : TaskSimilarReturns(t)
    \/ \E t \in Tasks, outcome \in MergeOutcomes : TaskMergeReturns(t, outcome)
    \/ \E t \in Tasks : TaskStoreReturns(t)

Init == BatchInit /\ DedupInit /\ WorkerInit /\ ParseInit /\ CacheInit /\ TaskInit

SpecBatch == Init /\ [][BatchNext]_vars

SpecWorker == Init /\ [][WorkerNext]_vars

SpecParse == Init /\ [][ParseNext]_vars

SpecDedup == Init /\ [][DedupNext]_vars

InitFind == BatchInit /\ FindInit /\ WorkerInit /\ ParseInit /\ CacheInit /\ TaskInit

SpecFind == InitFind /\ [][FindNext]_vars

SpecCache == Init /\ [][CacheNext]_vars

SpecOrdered == Init /\ [][OrderedNext]_vars

SpecTasks == Init /\ [][TaskNext]_vars

(***************************************************************************)
(*                     Claims about the BatchWriter                        *)
(***************************************************************************)

\* The last call flushed the entity buffer (blast.ents) / the relationship
\* buffer (blast.rels).
EntityFlushed ==
    /\ blast.flushed
    /\ blast.op \in {"add_entity", "flush_entities", "flush_all"}
RelationshipFlushed ==
    /\ blast.flushed
    /\ \/ blast.op \in {"add_relationship", "flush_relationships"}
       \/ blast.op = "flush_all" /\ ~blast.raised

IdsOf(buffer) == {buffer[i].id : i \in 1..Len(buffer)}
MalformedIds(buffer) == {buffer[i].id : i \in {j \in 1..Len(buffer) : buffer[j].malformed}}
HasEndpoints(rel) ==
    /\ \E s \in nodes : s.name = rel.source_name
    /\ \E t \in nodes : t.name = rel.target_name

\* C1: with a store whose bulk write fails exactly when the written batch
\* holds a malformed item, a flush of a buffer of n >= 2 items leaves every
\* well-formed item in the store (an entity as a node, a relationship whose
\* endpoints exist as an edge) and drops exactly the malformed items.
C1_NoValidItemLost ==
    blast.env = Reliable =>
        /\ (EntityFlushed /\ Len(blast.ents) >= 2) =>
               /\ \A i \in 1..Len(blast.ents) :
                      (blast.ents[i] \in nodes) <=> ~blast.ents[i].malformed
               /\ entity_buffer = <<>>
               /\ blast.op # "flush_all" => blast.dropped = MalformedIds(blast.ents)
        /\ (RelationshipFlushed /\ Len(blast.rels) >= 2) =>
               /\ \A i \in 1..Len(blast.rels) :
                      (\E e \in edges : e.id = blast.rels[i].id)
                          <=> (~blast.rels[i].malformed /\ HasEndpoints(blast.rels[i]))
               /\ relationship_buffer = <<>>
               /\ blast.op # "flush_all" => blast.dropped = MalformedIds(blast.rels)

\* A flush of at least three entities, exactly one of them malformed, whose
\* bulk write failed and whose retry stored a well-formed one.
C1_Witness ==
    /\ EntityFlushed
    /\ blast.env = Reliable
    /\ Len(blast.ents) >= 3
    /\ blast.writes > 1
    /\ Cardinality(MalformedIds(blast.ents)) = 1
    /\ \E i \in 1..Len(blast.ents) : ~blast.ents[i].malformed /\ blast.ents[i] \in nodes

\* C2: no flush raises a store write failure, and the flushed buffer is
\* empty when the flush (explicit, or the auto-flush of an add) finishes.
C2_FlushNeverRaises ==
    /\ blast.flushed => ~blast.raised
    /\ EntityFlushed => entity_buffer = <<>>
    /\ RelationshipFlushed => relationship_buffer = <<>>

\* The store accepts every write of the last call.
StoreAccepts(buffer) == blast.env = Reliable /\ MalformedIds(buffer) = {}

\* C13: with a store that accepts writes, add_entity (add_relationship)
\* issues a bulk write exactly when the buffer reaches BatchSize items: then
\* one write, every item of the buffer in it, and the buffer empty afterwards;
\* with fewer items buffered no write is issued and the item stays buffered.
C13_FlushTrigger ==
    /\ (blast.op = "add_entity" /\ StoreAccepts(blast.ents)) =>
           /\ blast.flushed <=> Len(blast.ents) = BatchSize
           /\ blast.flushed =>
                  /\ blast.writes = 1
                  /\ entity_buffer = <<>>
                  /\ \A i \in 1..Len(blast.ents) : blast.ents[i] \in nodes
           /\ ~blast.flushed => blast.writes = 0 /\ entity_buffer = blast.ents
    /\ (blast.op = "add_relationship" /\ StoreAccepts(blast.rels)) =>
           /\ blast.flushed <=> Len(blast.rels) = BatchSize
           /\ blast.flushed => blast.writes = 1 /\ relationship_buffer = <<>>
           /\ ~blast.flushed => blast.writes = 0 /\ relationship_buffer = blast.rels

\* The add_entity that brings the buffer to BatchSize items, written at once.
C13_Witness ==
    /\ blast.op = "add_entity"
    /\ StoreAccepts(blast.ents)
    /\ Len(blast.ents) = BatchSize
    /\ blast.flushed
    /\ blast.writes = 1
    /\ entity_buffer = <<>>

\* How many items the last call's flush had to write.
ItemsToFlush ==
    CASE blast.op \in {"add_entity", "flush_entities"} -> Len(blast.ents)
      [] blast.op \in {"add_relationship", "flush_relationships"} -> Len(blast.rels)
      [] blast.op = "flush_all" -> Len(blast.ents) + Len(blast.rels)
      [] OTHER -> 0

\* C12: every flush ends, whatever the store does: the nested retries are
\* made on strictly smaller batches (the nesting never passes the cap), the
\* flush issues at most three write attempts per buffered item, and when it
\* returns every flushed entity is persisted or dropped.
C12_FlushTerminates ==
    blast.flushed =>
        /\ ~blast.diverged
        /\ blast.writes <= 3 * ItemsToFlush
        /\ (EntityFlushed /\ ~blast.raised) =>
               \A i \in 1..Len(blast.ents) :
                   blast.ents[i] \in nodes \/ blast.ents[i].id \in blast.dropped

\* A flush of two or more entities against a store that rejects every write:
\* bulk write, bisection, one-by-one, every item dropped.
C12_Witness ==
    /\ EntityFlushed
    /\ blast.env.down
    /\ Len(blast.ents) >= 2
    /\ blast.writes >= 2 * Len(blast.ents) + 1
    /\ blast.dropped = IdsOf(blast.ents)
    /\ entity_buffer = <<>>

\* C14: when flush_all has ended, the entity buffer and the relationship
\* buffer are both empty, whatever they held and whatever the store did.
C14_FlushAllEmptiesBoth ==
    blast.op = "flush_all" => entity_buffer = <<>> /\ relationship_buffer = <<>>

(***************************************************************************)
(*                 Claims about the EntityDeduplicator                     *)
(***************************************************************************)

EntityIds(store) == {e.id : e \in store}

\* C3: after any sequence of find_or_create_entity calls on an initially
\* empty store, the store holds at most one entity per (name, type) pair.
C3_OnePerNameAndType ==
    \A e1, e2 \in entities :
        (e1.name = e2.name /\ e1.type = e2.type) => e1 = e2

\* A call for a pair that is already stored, in a store of several entities.
C3_Witness ==
    /\ calls >= 3
    /\ dlast.outcome = "exact"
    /\ Cardinality(entities) >= 2

\* The last call resolved its candidate by fuzzy match with a confidence
\* higher than the stored one.
FuzzyWithHigherConfidence ==
    /\ dlast.outcome \in {"merged", "raised"}
    /\ dlast.match # NoMatch
    /\ dlast.confidence_score > dlast.match.confidence_score

\* C4: a fuzzy match with a higher candidate confidence updates the matched
\* entity in place: it is still stored under the id that is returned, with the
\* candidate's confidence, and no entity was created or deleted.
C4_UpdateInPlace ==
    FuzzyWithHigherConfidence =>
        /\ dlast.id = dlast.match.id
        /\ \E e \in entities :
               /\ e.id = dlast.match.id
               /\ e.confidence_score = dlast.confidence_score
        /\ EntityIds(entities) = EntityIds(dlast.before)

\* The pair of the last call was stored when the call started: exact-match
\* deduplication applies to it.
SamePairAsPrevious ==
    /\ calls >= 2
    /\ dprev.name = dlast.name
    /\ dprev.type = dlast.type
    /\ dprev.outcome \in {"exact", "created"}

\* C9: exact-match deduplication is idempotent: a call that follows a call
\* with the same (name, type), which created the entity or found it by exact
\* match, returns the same id and leaves the store as it was, whatever the
\* second candidate's confidence.
C9_ExactMatchIdempotent ==
    SamePairAsPrevious =>
        /\ dlast.outcome = "exact"
        /\ dlast.id = dprev.id
        /\ entities = dlast.before

\* The second of two calls for the same pair, with a higher confidence than
\* the first, which created the entity.
C9_Witness ==
    /\ SamePairAsPrevious
    /\ dprev.outcome = "created"
    /\ dlast.confidence_score > dprev.confidence_score

\* The store held, when the last call started, an entity with the candidate's
\* name and another type.
SameNameOtherType ==
    /\ calls >= 1
    /\ \E e \in dlast.before : e.name = dlast.name /\ e.type # dlast.type

\* find_or_create_entity never returns the id of an entity of another type.
NeverAcrossTypes ==
    \A e \in dlast.before \cup entities :
        (dlast.id # 0 /\ e.id = dlast.id) => e.type = dlast.type

\* C10 as stated: for every store content, a candidate with the name of a
\* stored entity of another type causes a new entity to be created, and no
\* call returns the id of an entity of another type.
C10_AlwaysCreates ==
    /\ SameNameOtherType => dlast.outcome = "created"
    /\ NeverAcrossTypes

\* No stored entity of the candidate's own type has the candidate's name or a
\* name whose case-insensitive similarity to it is above the threshold.
NoMatchInOwnType ==
    \A e \in dlast.before :
        e.type = dlast.type =>
            /\ e.name # dlast.name
            /\ ~RatioAbove(Ratio(Lower(dlast.name), Lower(e.name)), SimilarityThreshold)

\* C10 amended: no call returns the id of an entity of another type, and a
\* candidate with the name of a stored entity of another type creates a new
\* entity whenever no stored entity of its own type matches it.
C10_TypeIsolation ==
    /\ NeverAcrossTypes
    /\ (SameNameOtherType /\ NoMatchInOwnType) =>
           /\ dlast.outcome = "created"
           /\ entities = dlast.before \cup
                  {[id |-> dlast.id, name |-> dlast.name, type |-> dlast.type,
                    confidence_score |-> dlast.confidence_score]}
           /\ dlast.id \notin EntityIds(dlast.before)

C10_Witness ==
    /\ SameNameOtherType
    /\ NoMatchInOwnType
    /\ dlast.outcome = "created"
    /\ \E e \in dlast.before : e.type = dlast.type

\* The stored entities of the type the last call asked for, the score of one
\* of them against the name of the call, and those scoring above the threshold.
PoolOfType == {e \in dlast.before : e.type = dlast.type}
ScoreOf(e) == Ratio(Lower(dlast.name), Lower(e.name))
AboveThreshold == {e \in PoolOfType : RatioAbove(ScoreOf(e), SimilarityThreshold)}
AtThreshold ==
    {e \in PoolOfType : ScoreOf(e).num = SimilarityThreshold * ScoreOf(e).den}

C5_StatusTransitions ==
    /\ Len(trail) >= 1 => trail[1] = "processing"
    /\ \A i \in 1..(Len(trail) - 1) :
           trail[i] \in {"indexed", "failed"} => trail[i + 1] = trail[i]

\* C6: with one worker and extractor / store calls that always return, the
\* worker loop does not stop, so no document is left on the queue with a
\* worker that will never take it.
C6_QueuedIsProcessed ==
    ~faulted => ~(pc = "crashed" /\ \E d \in Docs : processing[d] = "queued")

\* C7: in every state in which the worker has stopped on request, no
\* document it dequeued is left with status processing.
C7_StopFinishesDocument ==
    pc = "cancelled" => \A d \in Docs : processing[d] # "processing"

\* C15: a dequeued document without text is set to indexed (right after
\* processing, in the attempt that dequeued it) and extract_entities is never
\* invoked for it.
C15_EmptyNotExtracted ==
    \A d \in Docs :
        (handled[d].dequeued > 0 /\ ~handled[d].text) =>
            /\ handled[d].extracted = 0
            /\ processing[d] \in {"indexed", "failed"}
            /\ item.doc_id = d => Len(trail) >= 2 /\ trail[2] = "indexed"

\* A document without text that the worker took and recorded as indexed.
C15_Witness ==
    \E d \in Docs :
        /\ handled[d].dequeued > 0
        /\ ~handled[d].text
        /\ handled[d].extracted = 0
        /\ processing[d] = "indexed"
        /\ db_status[d] = "indexed"

\* C16: a document whose extraction reported failure, or for which a status
\* update raised, has status failed in the worker's status map; no document
\* is dequeued or given to the extractor more than once, and a failed one is
\* not on the queue again.
C16_FailedOnce ==
    \A d \in Docs :
        /\ handled[d].dequeued <= 1
        /\ handled[d].extracted <= 1
        /\ handled[d].failure =>
               /\ processing[d] = "failed"
               /\ \A i \in 1..Len(queue) : queue[i].doc_id # d

\* The worker is back at queue.get() after a document whose indexed status
\* could not be stored: the document is failed, and was taken once.
C16_Witness ==
    /\ pc = "get"
    /\ \E d \in Docs :
           /\ handled[d].failure
           /\ handled[d].dequeued = 1
           /\ processing[d] = "failed"
           /\ db_status[d] = "failed"
           /\ item.doc_id = d
           /\ trail = <<"processing", "indexed", "failed">>

\* C21: at most one document has status processing; the worker is at
\* queue.get() only when the document it took last is indexed or failed; and
\* documents are dequeued in the order they were enqueued.
C21_OneAtATime ==
    /\ Cardinality({d \in Docs : processing[d] = "processing"}) <= 1
    /\ (pc = "get" /\ item # NoItem) => processing[item.doc_id] \in {"indexed", "failed"}
    /\ \A d1, d2 \in Docs :
           (handled[d1].enq > 0 /\ handled[d1].enq < handled[d2].enq /\ handled[d2].deq > 0)
               => (handled[d1].deq > 0 /\ handled[d1].deq < handled[d2].deq)

\* Two documents were queued together, the first is done and the worker
\* is processing the second.
C21_Witness ==
    \E d1, d2 \in Docs :
        /\ handled[d1].enq = 1 /\ handled[d2].enq = 2
        /\ handled[d2].deq = 2
        /\ handled[d1].text /\ handled[d2].text
        /\ processing[d1] = "indexed"
        /\ processing[d2] = "processing"
        /\ db_status[d2] = "queued"
        /\ pc = "extract"

(***************************************************************************)
(*                   Claims about the response parser                      *)
(***************************************************************************)

\* No span of the response is a JSON array.
NoParseableArray(resp) ==
    \A q \in 1..Len(resp) : \A r \in q..Len(resp) : ~JsonLoads(SubSeq(resp, q, r))

\* C8: for every model response in which no parseable JSON array can be
\* found (prose, or a bracketed span that is not valid JSON), extract_entities
\* and extract_relationships return an empty list and raise no error.
C8_MalformedOutputIsEmpty ==
    (parsed.kind # "none" /\ NoParseableArray(llm_response)) =>
        (~parsed.raised /\ parsed.items = <<>>)

\* C17: for every JSON array text A, the parser yields from A wrapped in
\* ```json fences the same records, and the same outcome, as from A itself.
C17_FencedSameAsBare ==
    \A A \in Arrays :
        (parsed.kind # "none" /\ llm_response = Fenced(A)) =>
            parsed = ParseLLMResponse(A, parsed.kind)

\* The text json.loads is given, and the positions of its top-level elements
\* that are objects passing the validation of the record type.
JsonStrOf(resp) == IF FenceStarts(resp) # {} THEN FencedJson(resp) ELSE BareJson(resp)
PassesValidation(tok, kind) ==
    IF kind = "entities" THEN tok \in {"o", "u"}
    ELSE Upper(RelationshipTypeOf(tok)) \in ValidTypes
ValidPositions(json_str, kind) ==
    LET Valid(i) == /\ json_str[i] \in Objects
                    /\ Depth(json_str, i) = 1
                    /\ PassesValidation(json_str[i], kind)
    IN  SelectSeq([i \in 1..Len(json_str) |-> i], Valid)

\* C18: when the response holds an array that json.loads accepts, the parser
\* raises nothing and returns exactly the records of the array that pass
\* validation, one per such element, in the order of the array.
C18_ValidationIsLocal ==
    (/\ parsed.kind # "none"
     /\ FenceStarts(llm_response) \cup BareStarts(llm_response) # {}
     /\ JsonLoads(JsonStrOf(llm_response))) =>
        LET json_str == JsonStrOf(llm_response)
            valid == ValidPositions(json_str, parsed.kind)
        IN  /\ ~parsed.raised
            /\ Len(parsed.items) = Len(valid)
            /\ \A k \in 1..Len(valid) : parsed.items[k].name = NameOf(json_str[valid[k]])

\* An array with a record that fails validation between two that pass: the
\* two are returned, in their order.
C18_Witness ==
    /\ parsed.kind = "entities"
    /\ llm_response = <<"[", "u", "b", "o", "]">>
    /\ ~parsed.raised
    /\ Len(parsed.items) = 2
    /\ parsed.items[1].name = "B"
    /\ parsed.items[2].name = "A"

\* C19: every entity extract_entities returns has an entity_type that is a
\* type name of the loaded catalog.
C19_TypesInCatalog ==
    parsed.kind = "entities" =>
        \A k \in 1..Len(parsed.items) : parsed.items[k].type \in Catalog

\* C20: every relationship the extractor returns has a relationship_type of
\* the closed vocabulary, the upper-case form of the type the response gave;
\* exactly the relationships whose type is outside the vocabulary are rejected.
C20_ClosedVocabulary ==
    (/\ parsed.kind = "relationships"
     /\ FenceStarts(llm_response) \cup BareStarts(llm_response) # {}
     /\ JsonLoads(JsonStrOf(llm_response))) =>
        LET json_str == JsonStrOf(llm_response)
            valid == ValidPositions(json_str, "relationships")
        IN  /\ \A k \in 1..Len(parsed.items) : parsed.items[k].type \in ValidTypes
            /\ Len(parsed.items) = Len(valid)
            /\ \A k \in 1..Len(valid) :
                   /\ parsed.items[k].name = NameOf(json_str[valid[k]])
                   /\ parsed.items[k].type = Upper(RelationshipTypeOf(json_str[valid[k]]))

\* Relationships of types mentions, KNOWS and MENTIONS: the first is returned
\* as MENTIONS, the second is rejected, the third is returned.
C20_Witness ==
    /\ parsed.kind = "relationships"
    /\ llm_response = <<"[", "u", "b", "o", "]">>
    /\ ~parsed.raised
    /\ Len(parsed.items) = 2
    /\ parsed.items[1] = [name |-> "B", type |-> "MENTIONS"]
    /\ parsed.items[2] = [name |-> "A", type |-> "MENTIONS"]

\* The relationships added so far: every item added takes the next id, and
\* against a store that accepts every write an entity is buffered or stored.
AddedRelationshipIds ==
    (1..added) \ ({n.id : n \in nodes} \cup IdsOf(entity_buffer))

\* The entity named `name` was added before the item with id `r`.
AddedBefore(name, r) ==
    \E n \in nodes \cup {entity_buffer[i] : i \in 1..Len(entity_buffer)} :
        n.name = name /\ n.id < r

\* C25: with a store that accepts every write, once flush_all has completed
\* every relationship that was added after both of its endpoint entities is
\* present as an edge.
C25_EdgeAfterEndpoints ==
    (blast.op = "flush_all" /\ ~blast.raised) =>
        \A r \in AddedRelationshipIds :
            (AddedBefore("a", r) /\ AddedBefore("b", r)) => \E e \in edges : e.id = r

\* C26: a flushed relationship is at most one edge of the store, also when
\* several stored entities share the name of its source or target.
C26_AtMostOneEdge ==
    \A r \in 1..added : Cardinality({e \in edges : e.id = r}) <= 1

\* C24: every status the worker has put in the in-memory map is also the
\* persisted status of the document once the worker has moved past the change
\* without a fault: while it awaits the extraction, and when it is back at the
\* top of the loop.
C24_StatusChangesPersisted ==
    (pc \in {"get", "extract"} /\ ~faulted /\ item # NoItem) =>
        db_status[item.doc_id] = processing[item.doc_id]

\* C28: after sequential find_or_create_entity calls on a store that was
\* empty, no two stored entities of one type have names whose case-insensitive
\* similarity is strictly above the threshold.
C28_NoSimilarPairStored ==
    \A e1, e2 \in entities :
        (e1.id # e2.id /\ e1.type = e2.type) =>
            ~RatioAbove(Ratio(Lower(e1.name), Lower(e2.name)), SimilarityThreshold)

\* Two entities of one type are stored and the last call, for a name similar
\* to one of them, created nothing.
C28_Witness ==
    /\ \E e1, e2 \in entities : e1.id # e2.id /\ e1.type = e2.type /\ e1.type = dlast.type
    /\ dlast.outcome = "fuzzy"
    /\ entities = dlast.before

\* C29: task_done is called once for every item taken, so the unfinished
\* count is the number of items enqueued and not yet completely handled: the
\* items still in the queue, and the one the worker is handling.
C29_TaskDoneOncePerItem ==
    /\ pc = "get" => unfinished = Len(queue)
    /\ pc \in {"extract", "upd_empty", "upd_indexed", "upd_failed", "upd_except"} =>
           unfinished = Len(queue) + 1

\* C30: a find_or_create_entity call never lowers the confidence_score of a
\* stored entity, and the only stored entity whose record it touches is the
\* fuzzy match of a call with a strictly higher confidence; an exact match, a
\* fuzzy match with no higher confidence and a non-match leave every stored
\* record as it was.
C30_ConfidenceNeverDecreases ==
    dlast.outcome # "none" =>
        /\ \A e \in dlast.before : \A e2 \in entities :
               e2.id = e.id => e2.confidence_score >= e.confidence_score
        /\ \A e \in dlast.before :
               e \notin entities =>
                   /\ dlast.outcome = "merged"
                   /\ dlast.match.id = e.id
                   /\ dlast.confidence_score > e.confidence_score

\* A fuzzy match by a call with a lower confidence: the stored score stays.
C30_Witness ==
    /\ dlast.outcome = "fuzzy"
    /\ dlast.match \in entities
    /\ dlast.confidence_score < dlast.match.confidence_score
    /\ entities = dlast.before

\* C27: when two find_or_create_entity calls for the same name and type have
\* both returned, the store holds at most one entity with that name and type
\* and both calls returned the same id.
C27_ConcurrentSamePair ==
    \A t1, t2 \in Tasks :
        (/\ t1 # t2
         /\ tasks[t1].pc = "done" /\ tasks[t2].pc = "done"
         /\ tasks[t1].name = tasks[t2].name /\ tasks[t1].type = tasks[t2].type) =>
            /\ Cardinality(ExactMatches(entities, tasks[t1].name, tasks[t1].type)) <= 1
            /\ tasks[t1].id = tasks[t2].id

(***************************************************************************)
(*                 Claims about the entity-type catalog                    *)
(***************************************************************************)

C23_MissingFileRaises ==
    (clast.op = "load" /\ ~PathExists(clast.path)) =>
        /\ clast.outcome = "FileNotFoundError"
        /\ entity_types_cache = clast.before

====
